---- MODULE Spec2Model ----
(***************************************************************************)
(* MotionPredictionDataset (ysdc_dataset_api/dataset/dataset.py): the      *)
(* construction of the dataset (tag-file filtering or a pre-filtered path  *)
(* list), the sharding of the filtered path list over data-loading         *)
(* workers, and the lazy generator that walks the scenes of a shard and    *)
(* yields one example per valid, accepted prediction request.              *)
(*                                                                         *)
(* Python values: a list is a sequence read with 0-based indices through   *)
(* At and Slice; an exception is a record of its type; an object is a      *)
(* record of its attributes.                                               *)
(***************************************************************************)
EXTENDS Integers, Sequences, FiniteSets, TLC

\* Bounds of the model.
MaxPaths == 4
MaxRecords == 4
MaxWorkers == 3

None == "None"
\* None where the other values are objects or lists
NoneObject == [none |-> TRUE]
\* a list passed where None may be passed
List(list) == [none |-> FALSE, list |-> list]

VARIABLES
    dataset_files,  \* what get_file_paths(dataset_path) returns
    tag_file,       \* the lines of the file at scene_tags_fpath
    kwargs,         \* the remaining arguments of __init__
    layout,         \* which recorded scene each scene file holds
    self,           \* the MotionPredictionDataset object
    it,             \* the generator returned by __iter__
    twin,           \* a second dataset, built from pre-filtered paths
    twin_it         \* the generator of the second dataset

vars == <<dataset_files, tag_file, kwargs, layout, self, it, twin, twin_it>>

(***************************************************************************)
(* Python lists                                                            *)
(***************************************************************************)
Min(a, b) == IF a < b THEN a ELSE b

\* list[i], i a 0-based index in range
At(list, i) == list[i + 1]

\* list[start:stop] for 0 <= start, 0 <= stop: the bounds are clamped
Slice(list, start, stop) ==
    LET lo == Min(start, Len(list))
        hi == Min(stop, Len(list))
    IN  IF hi <= lo THEN << >> ELSE [k \in 1..(hi - lo) |-> list[lo + k]]

\* the sequences over S of length at most n
SeqsUpTo(S, n) == UNION {[1..k -> S] : k \in 0..n}

\* the sub-lists of a list (its elements at increasing positions)
RECURSIVE SubLists(_)
SubLists(list) ==
    IF list = << >> THEN {<< >>}
    ELSE LET rest == SubLists(Tail(list))
         IN  rest \cup {<<Head(list)>> \o r : r \in rest}

(***************************************************************************)
(* The inputs                                                              *)
(***************************************************************************)
\* A scene file path is named by its 0-based position in the dataset listing.
FilePaths(n) == [k \in 1..n |-> k - 1]

\* A line of the tag file: {"track": "Moscow"}, {"track": "Innopolis"}, or a
\* line that is not JSON.
WellFormedLines == {"Moscow", "Innopolis"}
TagLines == WellFormedLines \cup {"{"}

\* The values passed as scene_tags_filter and trajectory_tags_filter: nothing,
\* a predicate, or something that is not callable.
SceneTagsFilters == {None, "track_is_Moscow", "not_callable"}
TrajectoryTagsFilters == {None, "has_kMoveForward", "not_callable"}
\* A predicate that raises on some tag sets: it looks every tag up in a
\* table that has no entry for kMoveLeft.
RaisingTrajectoryTagsFilters == {"raises_on_kMoveLeft"}

\* The feature producers passed to the constructor: the renderer, which
\* emits feature_maps only, and a producer that emits a
\* ground_truth_trajectory entry of its own next to them.
FeatureProducers == {"renderer", "emits_ground_truth_trajectory"}
\* A producer that raises for a frame turned by three quarter turns.
RaisingFeatureProducers == {"raises_on_yaw_3"}

_trivial_filter(x) == TRUE

\* f(x) for the callables of the model
Call(f, x) ==
    CASE f = "_trivial_filter" -> _trivial_filter(x)
      [] f = "track_is_Moscow" -> x.track = "Moscow"
      [] f = "has_kMoveForward" -> "kMoveForward" \in x
      [] f = "raises_on_kMoveLeft" -> TRUE

\* f(x) raises
Raises(f, x) == f = "raises_on_kMoveLeft" /\ "kMoveLeft" \in x

(***************************************************************************)
(* Construction                                                            *)
(***************************************************************************)
Returned(v) == [raised |-> FALSE, value |-> v, error |-> None]
Raised(e) == [raised |-> TRUE, value |-> None, error |-> e]

\* json.loads(line.strip()) of one line of the tag file. The document handed
\* to json.loads is a single line, so the line number a JSONDecodeError
\* carries (1 + the newlines of the document before the error) is always 1.
json_loads(line) ==
    IF line \in WellFormedLines
    THEN Returned([track |-> line])
    ELSE Raised([type |-> "JSONDecodeError", doc |-> line, lineno |-> 1])

_callable_or_trivial_filter(f) ==
    IF f = None THEN Returned("_trivial_filter")
    ELSE IF f = "not_callable" THEN Raised([type |-> "ValueError"])
    ELSE Returned(f)

\* The loop of _filter_paths over the lines of the tag file, from line i on:
\* the indices accepted, and how often the filter was invoked.
RECURSIVE _filter_paths_loop(_, _, _, _, _)
_filter_paths_loop(filter, lines, i, valid_indices, calls) ==
    IF i >= Len(lines)
    THEN [raised |-> FALSE, error |-> None,
          valid_indices |-> valid_indices, calls |-> calls]
    ELSE LET tags == json_loads(At(lines, i))
         IN  IF tags.raised
             THEN [raised |-> TRUE, error |-> tags.error,
                   valid_indices |-> valid_indices, calls |-> calls]
             ELSE _filter_paths_loop(
                    filter, lines, i + 1,
                    IF Call(filter, tags.value)
                    THEN Append(valid_indices, i) ELSE valid_indices,
                    calls + 1)

\* _filter_paths with every index appended, whatever the filter returns.
_filter_paths_unfiltered(filter, file_paths, lines) ==
    LET loop == _filter_paths_loop("_trivial_filter", lines, 0, << >>, 0)
        valid == loop.valid_indices
    IN  IF loop.raised
        THEN [raised |-> TRUE, value |-> None, error |-> loop.error,
              opened |-> 1, calls |-> loop.calls]
        ELSE IF \E k \in 1..Len(valid) : valid[k] >= Len(file_paths)
        THEN [raised |-> TRUE, value |-> None,
              error |-> [type |-> "IndexError"],
              opened |-> 1, calls |-> loop.calls]
        ELSE [raised |-> FALSE,
              value |-> [k \in 1..Len(valid) |-> At(file_paths, valid[k])],
              error |-> None, opened |-> 1, calls |-> loop.calls]

\* _filter_paths with the accepted indices beyond the path list left out.
_filter_paths_clamped(filter, file_paths, lines) ==
    LET loop == _filter_paths_loop(filter, lines, 0, << >>, 0)
        InRange(i) == i < Len(file_paths)
        valid == SelectSeq(loop.valid_indices, InRange)
    IN  IF loop.raised
        THEN [raised |-> TRUE, value |-> None, error |-> loop.error,
              opened |-> 1, calls |-> loop.calls]
        ELSE [raised |-> FALSE,
              value |-> [k \in 1..Len(valid) |-> At(file_paths, valid[k])],
              error |-> None, opened |-> 1, calls |-> loop.calls]

\* _filter_paths: value is the list returned, opened and calls count the
\* opens of the tag file and the invocations of the scene filter.
_filter_paths(filter, file_paths, lines) ==
    LET loop == _filter_paths_loop(filter, lines, 0, << >>, 0)
        valid == loop.valid_indices
    IN  IF loop.raised
        THEN [raised |-> TRUE, value |-> None, error |-> loop.error,
              opened |-> 1, calls |-> loop.calls]
        ELSE IF \E k \in 1..Len(valid) : valid[k] >= Len(file_paths)
        THEN [raised |-> TRUE, value |-> None,
              error |-> [type |-> "IndexError"],
              opened |-> 1, calls |-> loop.calls]
        ELSE [raised |-> FALSE,
              value |-> [k \in 1..Len(valid) |-> At(file_paths, valid[k])],
              error |-> None, opened |-> 1, calls |-> loop.calls]

\* No object: before construction.
NoObject ==
    [state |-> "unbuilt", _scene_file_paths |-> None,
     _scene_tags_filter |-> None, _trajectory_tags_filter |-> None,
     _transform_ground_truth_to_agent_frame |-> None,
     _feature_producer |-> None,
     error |-> None, opened |-> 0, calls |-> 0]

\* A constructor that raised leaves no object behind.
Failed(e, opened, calls) ==
    [NoObject EXCEPT !.state = "raised", !.error = e,
                     !.opened = opened, !.calls = calls]

\* __init__ reading the tag file in both modes.
__init__always_filters(files, lines, kw) ==
    LET sf == _callable_or_trivial_filter(kw.scene_tags_filter)
        tf == _callable_or_trivial_filter(kw.trajectory_tags_filter)
        built(paths, opened, calls) ==
            [state |-> "built", _scene_file_paths |-> paths,
             _scene_tags_filter |-> sf.value,
             _trajectory_tags_filter |-> tf.value,
             _transform_ground_truth_to_agent_frame |->
                 kw.transform_ground_truth_to_agent_frame,
             _feature_producer |-> kw.feature_producer,
             error |-> None, opened |-> opened, calls |-> calls]
    IN  IF sf.raised THEN Failed(sf.error, 0, 0)
        ELSE IF tf.raised THEN Failed(tf.error, 0, 0)
        ELSE LET r == _filter_paths(sf.value, files, lines)
             IN  IF r.raised THEN Failed(r.error, r.opened, r.calls)
                 ELSE IF ~kw.pre_filtered_scene_file_paths.none
                 THEN built(kw.pre_filtered_scene_file_paths.list,
                            r.opened, r.calls)
                 ELSE built(r.value, r.opened, r.calls)

\* __init__: the object built, or the exception raised.
__init__(files, lines, kw) ==
    LET sf == _callable_or_trivial_filter(kw.scene_tags_filter)
        tf == _callable_or_trivial_filter(kw.trajectory_tags_filter)
        built(paths, opened, calls) ==
            [state |-> "built", _scene_file_paths |-> paths,
             _scene_tags_filter |-> sf.value,
             _trajectory_tags_filter |-> tf.value,
             _transform_ground_truth_to_agent_frame |->
                 kw.transform_ground_truth_to_agent_frame,
             _feature_producer |-> kw.feature_producer,
             error |-> None, opened |-> opened, calls |-> calls]
    IN  IF sf.raised THEN Failed(sf.error, 0, 0)
        ELSE IF tf.raised THEN Failed(tf.error, 0, 0)
        ELSE IF ~kw.pre_filtered_scene_file_paths.none
        THEN built(kw.pre_filtered_scene_file_paths.list, 0, 0)
        ELSE LET r == _filter_paths(sf.value, files, lines)
             IN  IF r.raised THEN Failed(r.error, r.opened, r.calls)
                 ELSE built(r.value, r.opened, r.calls)

num_scenes(obj) == Len(obj._scene_file_paths)

(***************************************************************************)
(* Scene storage and the per-request collaborators                         *)
(***************************************************************************)
\* The recorded scenes the scene files hold. A track is its state at
\* prediction time (offset 0) and its future positions; yaw counts quarter
\* turns. A request names a track and carries its trajectory tags.
RecordedScenes ==
    << [tracks |->
          (1 :> [exists0 |-> TRUE, position |-> <<1, 2>>, yaw |-> 1,
                 future |-> << <<1, 3>>, <<1, 4>> >>]) @@
          (2 :> [exists0 |-> FALSE, position |-> <<0, 0>>, yaw |-> 0,
                 future |-> << <<5, 5>> >>]) @@
          (3 :> [exists0 |-> TRUE, position |-> <<0, 1>>, yaw |-> 0,
                 future |-> << <<1, 1>> >>]),
        prediction_requests |->
          << [track_id |-> 1, trajectory_tags |-> {"kMoveForward"}],
             [track_id |-> 2, trajectory_tags |-> {"kMoveForward"}],
             [track_id |-> 3, trajectory_tags |-> {"kMoveLeft"}] >>],
       [tracks |->
          (1 :> [exists0 |-> TRUE, position |-> <<2, 0>>, yaw |-> 2,
                 future |-> << >>]) @@
          (2 :> [exists0 |-> TRUE, position |-> <<-1, 1>>, yaw |-> 3,
                 future |-> << <<-1, 0>> >>]),
        prediction_requests |->
          << [track_id |-> 2,
              trajectory_tags |-> {"kMoveForward", "kAcceleration"}],
             [track_id |-> 1, trajectory_tags |-> {"kStationary"}],
             [track_id |-> 7, trajectory_tags |-> {"kMoveForward"}] >>],
       [tracks |->
          (1 :> [exists0 |-> TRUE, position |-> <<3, 3>>, yaw |-> 0,
                 future |-> << <<4, 3>> >>]),
        prediction_requests |-> << >>] >>

\* What the scene files hold: file `path` holds the recorded scene number
\* (path + shift) mod 3, unless it is one of the corrupt files, which do
\* not decode.
Layouts == [shift : 0..(Len(RecordedScenes) - 1), corrupt : {{}}]
CorruptLayouts ==
    [shift : 0..(Len(RecordedScenes) - 1),
     corrupt : {{}} \cup {{path} : path \in 0..(MaxPaths - 1)}]

is_corrupt(path, lay) == path \in lay.corrupt

\* Decoding the scene file at `path`: the scene the file holds.
decode(path, lay) ==
    LET rec == RecordedScenes[((path + lay.shift) % Len(RecordedScenes)) + 1]
    IN  [id |-> path, tracks |-> rec.tracks,
         prediction_requests |-> rec.prediction_requests]

\* scenes_generator(file_paths): the i-th scene it yields (i from 0) is the
\* scene decoded from the i-th path; it ends after the last path.
scenes_generator(file_paths, i, lay) == decode(At(file_paths, i), lay)

\* request_is_valid: the track exists, has a state at prediction time and
\* has at least one future state.
request_is_valid(scene, request) ==
    /\ request.track_id \in DOMAIN scene.tracks
    /\ scene.tracks[request.track_id].exists0
    /\ scene.tracks[request.track_id].future # << >>

get_tags_from_request(request) == request.trajectory_tags

get_track_for_transform(scene, track_id) == scene.tracks[track_id]

get_gt_trajectory(scene, track_id) == scene.tracks[track_id].future

\* The transform into the frame of the track at prediction time.
get_to_track_frame_transform(track) ==
    [position |-> track.position, yaw |-> track.yaw]

\* A point turned by -yaw quarter turns.
RotateBack(p, yaw) ==
    CASE yaw = 0 -> p
      [] yaw = 1 -> <<p[2], 0 - p[1]>>
      [] yaw = 2 -> <<0 - p[1], 0 - p[2]>>
      [] yaw = 3 -> <<0 - p[2], p[1]>>

transform2dpoints(points, tf) ==
    [k \in 1..Len(points) |->
        RotateBack(<<points[k][1] - tf.position[1],
                     points[k][2] - tf.position[2]>>, tf.yaw)]

\* What the producer that emits a ground_truth_trajectory entry puts there.
ProducerGroundTruth == << <<9, 9>> >>

\* feature_producer.produce_features(scene, to_track_frame_tf): a mapping
\* from names to rendered tensors, or the exception raised.
produce_features(feature_producer, scene, tf) ==
    LET features == [feature_maps |-> [scene |-> scene.id, transform |-> tf]]
    IN  CASE feature_producer = "renderer" -> Returned(features)
          [] feature_producer = "emits_ground_truth_trajectory" ->
               Returned([feature_maps |-> features.feature_maps,
                         ground_truth_trajectory |-> ProducerGroundTruth])
          [] feature_producer = "raises_on_yaw_3" ->
               IF tf.yaw = 3 THEN Raised([type |-> "RuntimeError"])
               ELSE Returned(features)

\* dict.update
Update(d, e) ==
    [k \in DOMAIN d \cup DOMAIN e |-> IF k \in DOMAIN e THEN e[k] ELSE d[k]]

(***************************************************************************)
(* The renderer configuration (sdc/constants.py)                           *)
(***************************************************************************)
\* The farthest known point into the past a time grid may reach.
MaxHistory == 24

\* The layers of the road graph renderer, in the order the configuration
\* lists them.
RoadGraphLayers ==
    << "crosswalk_occupancy", "crosswalk_availability", "lane_availability",
       "lane_direction", "lane_occupancy", "lane_priority",
       "lane_speed_limit", "road_polygons" >>

\* The configuration with yaw asked of the pedestrians renderer as well.
RENDERER_CONFIG_pedestrians_yaw ==
    [feature_map_params |->
        [rows |-> 400, cols |-> 400,
         resolution |-> [num |-> 25, den |-> 100]],
     renderers_groups |->
        << [time_grid_params |-> [start |-> 0, stop |-> 0, step |-> 1],
            renderers |->
               << [vehicles |->
                      <<"occupancy", "velocity", "acceleration", "yaw">>],
                  [pedestrians |-> <<"occupancy", "velocity", "yaw">>] >>],
           [time_grid_params |-> [start |-> 0, stop |-> 0, step |-> 1],
            renderers |-> << [road_graph |-> RoadGraphLayers] >>] >>]

\* RENDERER_CONFIG; a renderer is a mapping of one entity class to the
\* list of its layers, and the resolution 0.25 is the fraction 25/100.
RENDERER_CONFIG ==
    [feature_map_params |->
        [rows |-> 400, cols |-> 400,
         resolution |-> [num |-> 25, den |-> 100]],
     renderers_groups |->
        << [time_grid_params |-> [start |-> 0, stop |-> 0, step |-> 1],
            renderers |->
               << [vehicles |->
                      <<"occupancy", "velocity", "acceleration", "yaw">>],
                  [pedestrians |-> <<"occupancy", "velocity">>] >>],
           [time_grid_params |-> [start |-> 0, stop |-> 0, step |-> 1],
            renderers |-> << [road_graph |-> RoadGraphLayers] >>] >>]

(***************************************************************************)
(* Sharding and iteration                                                  *)
(***************************************************************************)
\* list(range(start, stop, step)) for start <= stop and step >= 0
range(start, stop, step) ==
    IF step = 0 THEN Raised([type |-> "ValueError"])
    ELSE Returned([k \in 1..((stop - start + step - 1) \div step) |->
                      start + (k - 1) * step])

\* The split with every worker, the last one too, stopping at the next
\* multiple of the chunk size.
_split_filepaths_no_remainder(obj, worker_id, num_workers) ==
    LET n_scenes_per_worker == num_scenes(obj) \div num_workers
        split == range(0, num_scenes(obj), n_scenes_per_worker)
    IN  IF split.raised THEN Raised(split.error)
        ELSE IF worker_id >= Len(split.value)
        THEN Raised([type |-> "IndexError"])
        ELSE LET start == At(split.value, worker_id)
             IN  Returned(Slice(obj._scene_file_paths, start,
                                start + n_scenes_per_worker))

\* The split with the chunk size rounded up instead of down.
_split_filepaths_rounded_up(obj, worker_id, num_workers) ==
    LET n_scenes_per_worker ==
            (num_scenes(obj) + num_workers - 1) \div num_workers
        split == range(0, num_scenes(obj), n_scenes_per_worker)
    IN  IF split.raised THEN Raised(split.error)
        ELSE IF worker_id >= Len(split.value)
        THEN Raised([type |-> "IndexError"])
        ELSE LET start == At(split.value, worker_id)
             IN  IF worker_id = num_workers - 1
                 THEN Returned(Slice(obj._scene_file_paths, start,
                                     num_scenes(obj)))
                 ELSE IF worker_id + 1 >= Len(split.value)
                 THEN Raised([type |-> "IndexError"])
                 ELSE Returned(Slice(obj._scene_file_paths, start,
                                     At(split.value, worker_id + 1)))

_split_filepaths_by_worker(obj, worker_id, num_workers) ==
    LET n_scenes_per_worker == num_scenes(obj) \div num_workers
        split == range(0, num_scenes(obj), n_scenes_per_worker)
    IN  IF split.raised THEN Raised(split.error)
        ELSE IF worker_id >= Len(split.value)
        THEN Raised([type |-> "IndexError"])
        ELSE LET start == At(split.value, worker_id)
             IN  IF worker_id = num_workers - 1
                 THEN Returned(Slice(obj._scene_file_paths, start,
                                     num_scenes(obj)))
                 ELSE IF worker_id + 1 >= Len(split.value)
                 THEN Raised([type |-> "IndexError"])
                 ELSE Returned(Slice(obj._scene_file_paths, start,
                                     At(split.value, worker_id + 1)))

NoIterator ==
    [pc |-> "none", worker_info |-> NoneObject, file_paths |-> None,
     scene_i |-> 0, scene |-> None, req_i |-> 0,
     decoded |-> << >>, yielded |-> << >>, trace |-> << >>,
     error |-> None, split_calls |-> 0, steps |-> 0]

\* The contexts torch.utils.data.get_worker_info() reports.
WorkerInfos ==
    {NoneObject} \cup {[none |-> FALSE, id |-> w, num_workers |-> W] :
                    w \in 0..(MaxWorkers - 1), W \in 1..MaxWorkers}

\* __iter__ handing the whole path list to the generator in every context.
__iter__unsharded(obj, worker_info) ==
    [NoIterator EXCEPT !.pc = "scenes",
                       !.worker_info = worker_info,
                       !.file_paths = obj._scene_file_paths]

\* __iter__ taking the absence of a worker context for worker 0 of 1 and
\* splitting all the same.
__iter__always_splits(obj, worker_info) ==
    LET file_paths ==
            IF worker_info.none THEN _split_filepaths_by_worker(obj, 0, 1)
            ELSE _split_filepaths_by_worker(
                     obj, worker_info.id, worker_info.num_workers)
    IN  IF file_paths.raised
        THEN [NoIterator EXCEPT !.pc = "raised",
                                !.worker_info = worker_info,
                                !.error = file_paths.error,
                                !.split_calls = 1]
        ELSE [NoIterator EXCEPT !.pc = "scenes",
                                !.worker_info = worker_info,
                                !.file_paths = file_paths.value,
                                !.split_calls = 1]

\* __iter__: the generator over the worker's paths, not yet started; or the
\* exception raised. `split_calls` counts the calls of
\* _split_filepaths_by_worker it made.
__iter__(obj, worker_info) ==
    LET file_paths ==
            IF worker_info.none THEN Returned(obj._scene_file_paths)
            ELSE _split_filepaths_by_worker(
                     obj, worker_info.id, worker_info.num_workers)
        split_calls == IF worker_info.none THEN 0 ELSE 1
    IN  IF file_paths.raised
        THEN [NoIterator EXCEPT !.pc = "raised",
                                !.worker_info = worker_info,
                                !.error = file_paths.error,
                                !.split_calls = split_calls]
        ELSE [NoIterator EXCEPT !.pc = "scenes",
                                !.worker_info = worker_info,
                                !.file_paths = file_paths.value,
                                !.split_calls = split_calls]

\* The transform taken from the first request of the scene for every
\* request of it.
to_track_frame_tf_of_first_request(scene, request) ==
    LET first == At(scene.prediction_requests, 0)
        track == get_track_for_transform(scene, first.track_id)
    IN  get_to_track_frame_transform(track)

\* The transform data_gen computes for request `request` of `scene`.
to_track_frame_tf(scene, request) ==
    LET track == get_track_for_transform(scene, request.track_id)
    IN  get_to_track_frame_transform(track)

\* The ground truth data_gen puts into the example of the request.
ground_truth_trajectory(obj, scene, request) ==
    LET trajectory == get_gt_trajectory(scene, request.track_id)
    IN  IF obj._transform_ground_truth_to_agent_frame
        THEN transform2dpoints(trajectory, to_track_frame_tf(scene, request))
        ELSE trajectory

\* The example data_gen builds for request `request` of `scene`.
example(obj, scene, request) ==
    LET result ==
            [ground_truth_trajectory |->
                ground_truth_trajectory(obj, scene, request)]
    IN  Update(result,
               produce_features(obj._feature_producer, scene,
                                to_track_frame_tf(scene, request)).value)

\* A call data_gen makes while it handles request number i of `scene`.
Ev(op, scene, i) == [op |-> op, scene |-> scene.id, request |-> i]

\* The calls with the producer run ahead of the two checks.
calls_of_request_eager(obj, scene, i) ==
    LET request == At(scene.prediction_requests, i)
        known == request.track_id \in DOMAIN scene.tracks
        tf == IF known THEN to_track_frame_tf(scene, request)
              ELSE [position |-> <<0, 0>>, yaw |-> 0]
        produce == [op |-> "produce_features", scene |-> scene.id,
                    request |-> i, transform |-> tf]
        valid == request_is_valid(scene, request)
        accepted == Call(obj._trajectory_tags_filter,
                         get_tags_from_request(request))
    IN  << produce, Ev("request_is_valid", scene, i) >>
        \o (IF ~valid THEN << >>
            ELSE << Ev("get_tags_from_request", scene, i),
                    Ev("_trajectory_tags_filter", scene, i) >>
                 \o (IF ~accepted THEN << >>
                     ELSE << Ev("get_track_for_transform", scene, i),
                             Ev("get_to_track_frame_transform", scene, i),
                             Ev("get_gt_trajectory", scene, i),
                             Ev("yield", scene, i) >>))

\* The calls with the predicate asked before the validity check.
calls_of_request_filter_first(obj, scene, i) ==
    LET request == At(scene.prediction_requests, i)
        valid == request_is_valid(scene, request)
        accepted == Call(obj._trajectory_tags_filter,
                         get_tags_from_request(request))
    IN  << Ev("get_tags_from_request", scene, i),
           Ev("_trajectory_tags_filter", scene, i),
           Ev("request_is_valid", scene, i) >>
        \o (IF ~valid \/ ~accepted THEN << >>
            ELSE << Ev("get_track_for_transform", scene, i),
                    Ev("get_to_track_frame_transform", scene, i),
                    Ev("get_gt_trajectory", scene, i),
                    [op |-> "produce_features", scene |-> scene.id,
                     request |-> i,
                     transform |-> to_track_frame_tf(scene, request)],
                    Ev("yield", scene, i) >>)

\* The calls data_gen makes, in order, while it handles request number i
\* of `scene`, the yield last.
calls_of_request(obj, scene, i) ==
    LET request == At(scene.prediction_requests, i)
        valid == request_is_valid(scene, request)
        tags == get_tags_from_request(request)
        raises == Raises(obj._trajectory_tags_filter, tags)
        accepted == Call(obj._trajectory_tags_filter, tags)
        tf == to_track_frame_tf(scene, request)
        features == produce_features(obj._feature_producer, scene, tf)
    IN  << Ev("request_is_valid", scene, i) >>
        \o (IF ~valid THEN << >>
            ELSE << Ev("get_tags_from_request", scene, i),
                    Ev("_trajectory_tags_filter", scene, i) >>
                 \o (IF raises \/ ~accepted THEN << >>
                     ELSE << Ev("get_track_for_transform", scene, i),
                             Ev("get_to_track_frame_transform", scene, i),
                             Ev("get_gt_trajectory", scene, i) >>
                          \o (IF obj._transform_ground_truth_to_agent_frame
                              THEN << Ev("transform2dpoints", scene, i) >>
                              ELSE << >>)
                          \o << [op |-> "produce_features",
                                 scene |-> scene.id, request |-> i,
                                 transform |-> tf] >>
                          \o (IF features.raised THEN << >>
                              ELSE << Ev("yield", scene, i) >>)))

\* Where data_gen goes from its position g.
Branch(obj, g, lay) ==
    IF g.pc = "scenes"
    THEN IF g.scene_i >= Len(g.file_paths) THEN "stop"
         ELSE IF is_corrupt(At(g.file_paths, g.scene_i), lay)
         THEN "decode_raises"
         ELSE "decode"
    ELSE IF g.pc = "requests"
    THEN IF g.req_i >= Len(g.scene.prediction_requests) THEN "next_scene"
         ELSE LET request == At(g.scene.prediction_requests, g.req_i)
                  tags == get_tags_from_request(request)
              IN  IF ~request_is_valid(g.scene, request)
                  THEN "skip_invalid"
                  ELSE IF Raises(obj._trajectory_tags_filter, tags)
                  THEN "filter_raises"
                  ELSE IF ~Call(obj._trajectory_tags_filter, tags)
                  THEN "skip_filtered"
                  ELSE IF produce_features(
                              obj._feature_producer, g.scene,
                              to_track_frame_tf(g.scene, request)).raised
                  THEN "producer_raises"
                  ELSE "yield"
    ELSE IF g.pc = "failed" THEN "resume_failed"
    ELSE "halted"

\* `break` where the code has `continue`: the rest of the scene is dropped.
break_scene(g) == [g EXCEPT !.req_i = Len(g.scene.prediction_requests)]

\* `continue`: on to the next request of the scene.
continue(g) == [g EXCEPT !.req_i = @ + 1]

\* The exception caught inside the loops and the item it came from skipped.
swallow(g, e) ==
    IF g.pc = "scenes" THEN [g EXCEPT !.scene_i = @ + 1]
    ELSE [g EXCEPT !.req_i = @ + 1]

\* An exception raised inside data_gen: no handler in the generator, so it
\* reaches the consumer's next() and the generator is finished.
propagate(g, e) == [g EXCEPT !.pc = "failed", !.error = e, !.scene = None]

\* One step of data_gen from its position g. `decoded` lists the scene
\* files decoded so far; `yielded` lists the examples yielded so far, each
\* with the scene file and the request index it was built from; `trace`
\* lists the calls made so far and `steps` counts the steps taken.
data_gen(obj, gen, lay) ==
    LET b == Branch(obj, gen, lay)
        g == [gen EXCEPT !.steps = @ + 1]
    IN  CASE b = "decode" ->
               LET scene == scenes_generator(g.file_paths, g.scene_i, lay)
               IN  [g EXCEPT !.pc = "requests",
                             !.scene = scene,
                             !.req_i = 0,
                             !.decoded = Append(@, scene.id),
                             !.trace = Append(@,
                                [op |-> "scenes_generator",
                                 scene |-> scene.id])]
          [] b = "decode_raises" ->
               LET path == At(g.file_paths, g.scene_i)
               IN  propagate(
                       [g EXCEPT !.trace = Append(@,
                           [op |-> "scenes_generator", scene |-> path])],
                       [type |-> "DecodeError", path |-> path])
          [] b = "stop" -> [g EXCEPT !.pc = "exhausted", !.scene = None]
          [] b = "next_scene" ->
               [g EXCEPT !.pc = "scenes", !.scene_i = @ + 1, !.scene = None]
          [] b \in {"skip_invalid", "skip_filtered"} ->
               continue([g EXCEPT !.trace =
                            @ \o calls_of_request(obj, g.scene, g.req_i)])
          [] b = "filter_raises" ->
               propagate([g EXCEPT !.trace =
                             @ \o calls_of_request(obj, g.scene, g.req_i)],
                         [type |-> "KeyError"])
          [] b = "producer_raises" ->
               propagate([g EXCEPT !.trace =
                             @ \o calls_of_request(obj, g.scene, g.req_i)],
                         produce_features(
                             obj._feature_producer, g.scene,
                             to_track_frame_tf(g.scene,
                                 At(g.scene.prediction_requests,
                                    g.req_i))).error)
          [] b = "yield" ->
               [g EXCEPT !.req_i = @ + 1,
                         !.trace =
                            @ \o calls_of_request(obj, g.scene, g.req_i),
                         !.yielded = Append(@,
                            [path |-> g.scene.id, request |-> g.req_i,
                             result |-> example(obj, g.scene,
                                 At(g.scene.prediction_requests, g.req_i))])]
          [] b = "resume_failed" -> [g EXCEPT !.pc = "closed"]
          [] OTHER -> gen

(***************************************************************************)
(* The state machine                                                       *)
(***************************************************************************)
Kwargs ==
    [scene_tags_filter : SceneTagsFilters,
     trajectory_tags_filter : TrajectoryTagsFilters,
     transform_ground_truth_to_agent_frame : BOOLEAN,
     feature_producer : {"renderer"},
     pre_filtered_scene_file_paths : {NoneObject}]

Init ==
    /\ \E n \in 0..MaxPaths : dataset_files = FilePaths(n)
    /\ tag_file \in SeqsUpTo(TagLines, MaxRecords)
    /\ kwargs \in Kwargs
    /\ layout \in Layouts
    /\ self = NoObject
    /\ it = NoIterator
    /\ twin = NoObject
    /\ twin_it = NoIterator

Construct ==
    /\ self.state = "unbuilt"
    /\ self' = __init__(dataset_files, tag_file, kwargs)
    /\ UNCHANGED <<dataset_files, tag_file, kwargs, layout, it, twin, twin_it>>

\* Iteration starts in the context the data loader set up.
Iter ==
    /\ self.state = "built"
    /\ it.pc = "none"
    /\ \E worker_info \in WorkerInfos :
          /\ ~worker_info.none => worker_info.id < worker_info.num_workers
          /\ it' = __iter__(self, worker_info)
    /\ UNCHANGED <<dataset_files, tag_file, kwargs, layout, self, twin, twin_it>>

\* data_gen runs on from where it stands, one branch of its loops at a time.
DecodeScene ==
    /\ Branch(self, it, layout) = "decode"
    /\ it' = data_gen(self, it, layout)
    /\ UNCHANGED <<dataset_files, tag_file, kwargs, layout, self, twin, twin_it>>

EndOfScene ==
    /\ Branch(self, it, layout) = "next_scene"
    /\ it' = data_gen(self, it, layout)
    /\ UNCHANGED <<dataset_files, tag_file, kwargs, layout, self, twin, twin_it>>

SkipInvalid ==
    /\ Branch(self, it, layout) = "skip_invalid"
    /\ it' = data_gen(self, it, layout)
    /\ UNCHANGED <<dataset_files, tag_file, kwargs, layout, self, twin, twin_it>>

SkipFiltered ==
    /\ Branch(self, it, layout) = "skip_filtered"
    /\ it' = data_gen(self, it, layout)
    /\ UNCHANGED <<dataset_files, tag_file, kwargs, layout, self, twin, twin_it>>

Yield ==
    /\ Branch(self, it, layout) = "yield"
    /\ it' = data_gen(self, it, layout)
    /\ UNCHANGED <<dataset_files, tag_file, kwargs, layout, self, twin, twin_it>>

StopIteration ==
    /\ Branch(self, it, layout) = "stop"
    /\ it' = data_gen(self, it, layout)
    /\ UNCHANGED <<dataset_files, tag_file, kwargs, layout, self, twin, twin_it>>

Next ==
    \/ Construct
    \/ Iter
    \/ DecodeScene
    \/ EndOfScene
    \/ SkipInvalid
    \/ SkipFiltered
    \/ Yield
    \/ StopIteration

Spec == Init /\ [][Next]_vars

(***************************************************************************)
(* Two datasets side by side: `self` built from the tag file, `twin` built *)
(* from a pre-filtered path list with the other arguments unchanged, and   *)
(* iterated in the same worker context, step for step.                     *)
(***************************************************************************)
ConstructTwin ==
    /\ self.state # "unbuilt"
    /\ twin.state = "unbuilt"
    /\ \E paths \in SubLists(dataset_files) :
          twin' = __init__(dataset_files, tag_file,
                     [kwargs EXCEPT !.pre_filtered_scene_file_paths =
                                        List(paths)])
    /\ UNCHANGED <<dataset_files, tag_file, kwargs, layout, self, it, twin_it>>

IterBoth ==
    /\ self.state = "built"
    /\ twin.state = "built"
    /\ self._scene_file_paths = twin._scene_file_paths
    /\ it.pc = "none"
    /\ twin_it.pc = "none"
    /\ \E worker_info \in WorkerInfos :
          /\ ~worker_info.none => worker_info.id < worker_info.num_workers
          /\ it' = __iter__(self, worker_info)
          /\ twin_it' = __iter__(twin, worker_info)
    /\ UNCHANGED <<dataset_files, tag_file, kwargs, layout, self, twin>>

StepBoth ==
    /\ \/ Branch(self, it, layout) # "halted"
       \/ Branch(twin, twin_it, layout) # "halted"
    /\ it' = data_gen(self, it, layout)
    /\ twin_it' = data_gen(twin, twin_it, layout)
    /\ UNCHANGED <<dataset_files, tag_file, kwargs, layout, self, twin>>

NextModes ==
    \/ Construct
    \/ ConstructTwin
    \/ IterBoth
    \/ StepBoth

SpecModes == Init /\ [][NextModes]_vars

(***************************************************************************)
(* The dataset among collaborators that fail or break their contract:      *)
(* scene files that do not decode, a trajectory predicate that raises, a   *)
(* feature producer that raises or emits a ground_truth_trajectory entry.  *)
(* Every scene has a tag record and the scene filter is the default.       *)
(***************************************************************************)
CollaboratorKwargs ==
    [scene_tags_filter : {None},
     trajectory_tags_filter :
         {None, "has_kMoveForward"} \cup RaisingTrajectoryTagsFilters,
     transform_ground_truth_to_agent_frame : BOOLEAN,
     feature_producer : FeatureProducers \cup RaisingFeatureProducers,
     pre_filtered_scene_file_paths : {NoneObject}]

InitCollaborators ==
    /\ \E n \in 0..Min(MaxPaths, MaxRecords) :
          /\ dataset_files = FilePaths(n)
          /\ tag_file = [k \in 1..n |-> "Moscow"]
    /\ kwargs \in CollaboratorKwargs
    /\ layout \in CorruptLayouts
    /\ self = NoObject
    /\ it = NoIterator
    /\ twin = NoObject
    /\ twin_it = NoIterator

DecodeRaises ==
    /\ Branch(self, it, layout) = "decode_raises"
    /\ it' = data_gen(self, it, layout)
    /\ UNCHANGED <<dataset_files, tag_file, kwargs, layout, self, twin, twin_it>>

FilterRaises ==
    /\ Branch(self, it, layout) = "filter_raises"
    /\ it' = data_gen(self, it, layout)
    /\ UNCHANGED <<dataset_files, tag_file, kwargs, layout, self, twin, twin_it>>

ProducerRaises ==
    /\ Branch(self, it, layout) = "producer_raises"
    /\ it' = data_gen(self, it, layout)
    /\ UNCHANGED <<dataset_files, tag_file, kwargs, layout, self, twin, twin_it>>

\* The consumer calls next() on a generator that raised.
NextAfterRaise ==
    /\ Branch(self, it, layout) = "resume_failed"
    /\ it' = data_gen(self, it, layout)
    /\ UNCHANGED <<dataset_files, tag_file, kwargs, layout, self, twin, twin_it>>

NextCollaborators ==
    \/ Construct
    \/ Iter
    \/ DecodeScene
    \/ EndOfScene
    \/ SkipInvalid
    \/ SkipFiltered
    \/ Yield
    \/ StopIteration
    \/ DecodeRaises
    \/ FilterRaises
    \/ ProducerRaises
    \/ NextAfterRaise

SpecCollaborators == InitCollaborators /\ [][NextCollaborators]_vars

(***************************************************************************)
(* Two iterations of one dataset at a time, `it` and `twin_it`, each in    *)
(* its own worker context, their steps interleaved in any order; the       *)
(* consumer may drop either generator before it is exhausted. Every scene  *)
(* file has a tag record and is accepted.                                  *)
(***************************************************************************)
PlainKwargs ==
    [scene_tags_filter : {None},
     trajectory_tags_filter : {None, "has_kMoveForward"},
     transform_ground_truth_to_agent_frame : BOOLEAN,
     feature_producer : {"renderer"},
     pre_filtered_scene_file_paths : {NoneObject}]

InitAllAccepted ==
    /\ \E n \in 0..Min(MaxPaths, MaxRecords) :
          /\ dataset_files = FilePaths(n)
          /\ tag_file = [k \in 1..n |-> "Moscow"]
    /\ kwargs \in PlainKwargs
    /\ layout \in Layouts
    /\ self = NoObject
    /\ it = NoIterator
    /\ twin = NoObject
    /\ twin_it = NoIterator

\* The generators reading their position from one place: a step of one
\* moves the scene cursor of the other along.
next_with_shared_cursor(gens, w, obj, lay) ==
    LET stepped == data_gen(obj, gens[w], lay)
    IN  [k \in 1..2 |->
            IF k = w THEN stepped
            ELSE IF gens[k].pc \in {"scenes", "requests"}
            THEN [gens[k] EXCEPT !.scene_i = stepped.scene_i]
            ELSE gens[k]]

\* next() on generator number w of the two: data_gen keeps its position in
\* its own frame (file_paths, the loop variables), so the other generator
\* is left as it is.
next(gens, w, obj, lay) ==
    [gens EXCEPT ![w] = data_gen(obj, gens[w], lay)]

\* The consumer drops a generator: it is closed where it stands.
close(g) == [g EXCEPT !.pc = "closed", !.scene = None]

IterWorker ==
    /\ self.state = "built"
    /\ it.pc = "none"
    /\ \E worker_info \in WorkerInfos :
          /\ ~worker_info.none
          /\ worker_info.id < worker_info.num_workers
          /\ twin_it.pc # "none" =>
                worker_info.num_workers = twin_it.worker_info.num_workers
          /\ it' = __iter__(self, worker_info)
    /\ UNCHANGED <<dataset_files, tag_file, kwargs, layout, self, twin, twin_it>>

IterOtherWorker ==
    /\ self.state = "built"
    /\ twin_it.pc = "none"
    /\ \E worker_info \in WorkerInfos :
          /\ ~worker_info.none
          /\ worker_info.id < worker_info.num_workers
          /\ it.pc # "none" =>
                worker_info.num_workers = it.worker_info.num_workers
          /\ twin_it' = __iter__(self, worker_info)
    /\ UNCHANGED <<dataset_files, tag_file, kwargs, layout, self, twin, it>>

StepWorker ==
    /\ Branch(self, it, layout) # "halted"
    /\ it' = next(<<it, twin_it>>, 1, self, layout)[1]
    /\ twin_it' = next(<<it, twin_it>>, 1, self, layout)[2]
    /\ UNCHANGED <<dataset_files, tag_file, kwargs, layout, self, twin>>

StepOtherWorker ==
    /\ Branch(self, twin_it, layout) # "halted"
    /\ it' = next(<<it, twin_it>>, 2, self, layout)[1]
    /\ twin_it' = next(<<it, twin_it>>, 2, self, layout)[2]
    /\ UNCHANGED <<dataset_files, tag_file, kwargs, layout, self, twin>>

Abandon ==
    /\ it.pc \in {"scenes", "requests"}
    /\ it' = close(it)
    /\ UNCHANGED <<dataset_files, tag_file, kwargs, layout, self, twin, twin_it>>

AbandonOther ==
    /\ twin_it.pc \in {"scenes", "requests"}
    /\ twin_it' = close(twin_it)
    /\ UNCHANGED <<dataset_files, tag_file, kwargs, layout, self, twin, it>>

NextWorkers ==
    \/ Construct
    \/ IterWorker
    \/ IterOtherWorker
    \/ StepWorker
    \/ StepOtherWorker
    \/ Abandon
    \/ AbandonOther

SpecWorkers == InitAllAccepted /\ [][NextWorkers]_vars

(***************************************************************************)
(* One iteration after another over one dataset: when the generator `it`   *)
(* is exhausted or has been dropped, the consumer asks the dataset for a   *)
(* new iterator in the same worker context; `twin_it` keeps the generator  *)
(* of the iteration before.                                                *)
(***************************************************************************)
\* An iterator kept by the dataset and handed out again: the new iteration
\* goes on from the scene the last one stopped at.
iter_again_resuming(obj, g) ==
    LET fresh == __iter__(obj, g.worker_info)
    IN  IF fresh.pc = "scenes" THEN [fresh EXCEPT !.scene_i = g.scene_i]
        ELSE fresh

\* iter(dataset) once more where generator g was obtained: __iter__ builds
\* a new generator from the path list and takes nothing over from g.
iter_again(obj, g) == __iter__(obj, g.worker_info)

Restart ==
    /\ it.pc \in {"exhausted", "closed"}
    /\ twin_it' = it
    /\ it' = iter_again(self, it)
    /\ UNCHANGED <<dataset_files, tag_file, kwargs, layout, self, twin>>

NextRestart ==
    \/ Construct
    \/ Iter
    \/ DecodeScene
    \/ EndOfScene
    \/ SkipInvalid
    \/ SkipFiltered
    \/ Yield
    \/ StopIteration
    \/ Abandon
    \/ Restart

SpecRestart == InitAllAccepted /\ [][NextRestart]_vars

(***************************************************************************)
(* Properties                                                              *)
(***************************************************************************)
Built == self.state = "built"
Started == it.pc \in {"scenes", "requests", "exhausted"}
InWorker == it.pc # "none" /\ ~it.worker_info.none

\* Tag record i (0-based) is well formed and satisfies the scene filter
\* passed to the constructor.
RecordSatisfies(i) ==
    /\ At(tag_file, i) \in WellFormedLines
    /\ \/ kwargs.scene_tags_filter = None
       \/ /\ kwargs.scene_tags_filter = "track_is_Moscow"
          /\ At(tag_file, i) = "Moscow"

AcceptedRecords == {i \in 0..(Len(tag_file) - 1) : RecordSatisfies(i)}

FiltersCallable ==
    /\ kwargs.scene_tags_filter # "not_callable"
    /\ kwargs.trajectory_tags_filter # "not_callable"

AllRecordsParse == \A i \in 0..(Len(tag_file) - 1) : At(tag_file, i) \in WellFormedLines

\* The elements of `list` at the 0-based positions lo .. hi-1.
Positions(list, lo, hi) == [k \in 1..(hi - lo) |-> list[lo + k]]

\* The range of positions the sharding policy gives worker w of W over N
\* scenes.
ShardLo(N, W, w) == w * (N \div W)
ShardHi(N, W, w) == IF w = W - 1 THEN N ELSE (w + 1) * (N \div W)

\* C1: for N = num_scenes >= 1 and 1 <= W <= N, the shards of the workers
\* 0..W-1 together hold every path of the filtered list exactly once, and
\* every shard but the last has exactly N // W elements. The dataset does
\* not change once built, so the shards are compared as construction
\* returns; the shard a started worker walks has the size stated.
C1_ShardingPartition ==
    /\ (Built /\ it.pc = "none") =>
          LET N == num_scenes(self)
              paths == self._scene_file_paths
          IN  \A W \in 1..N :
                LET shard == [w \in 0..(W - 1) |->
                                _split_filepaths_by_worker(self, w, W)]
                IN  /\ \A w \in 0..(W - 1) : ~shard[w].raised
                    /\ \A w \in 0..(W - 1) :
                         \A k \in 1..Len(shard[w].value) :
                           \E j \in 1..N : shard[w].value[k] = paths[j]
                    /\ \A j \in 1..N :
                         Cardinality(
                           {wk \in (0..(W - 1)) \X (1..N) :
                              /\ wk[2] <= Len(shard[wk[1]].value)
                              /\ shard[wk[1]].value[wk[2]] = paths[j]}) = 1
                    /\ \A w \in 0..(W - 2) :
                         Len(shard[w].value) = N \div W
    /\ (Built /\ InWorker /\ it.worker_info.num_workers <= num_scenes(self)) =>
          /\ Started
          /\ it.worker_info.id < it.worker_info.num_workers - 1 =>
                Len(it.file_paths) =
                    num_scenes(self) \div it.worker_info.num_workers
          /\ \A k \in 1..Len(it.file_paths) :
                \E j \in 1..num_scenes(self) :
                    it.file_paths[k] = self._scene_file_paths[j]

\* A worker that is the last of three iterates a shard of two of four
\* scenes: the chunk and the remainder.
C1_Witness ==
    /\ Built /\ num_scenes(self) = 4
    /\ it.pc = "exhausted" /\ ~it.worker_info.none
    /\ it.worker_info.num_workers = 3 /\ it.worker_info.id = 2
    /\ Len(it.file_paths) = 2

\* C2: with chunk = N // W and 1 <= W <= N, worker w < W-1 gets the paths at
\* positions [w*chunk, (w+1)*chunk) and the last worker those at
\* [(W-1)*chunk, N), in the order of the filtered list (compared as
\* construction returns); a generator started in a worker context walks
\* exactly that slice.
C2_ExactShardRanges ==
    Built =>
      LET N == num_scenes(self)
      IN  /\ it.pc = "none" =>
                \A W \in 1..N : \A w \in 0..(W - 1) :
                    _split_filepaths_by_worker(self, w, W) =
                      Returned(Positions(self._scene_file_paths,
                                         ShardLo(N, W, w), ShardHi(N, W, w)))
          /\ (InWorker /\ it.worker_info.num_workers <= N) =>
                /\ Started
                /\ it.file_paths =
                     Positions(self._scene_file_paths,
                        ShardLo(N, it.worker_info.num_workers,
                                it.worker_info.id),
                        ShardHi(N, it.worker_info.num_workers,
                                it.worker_info.id))

\* The second of two workers over a filtered list of three of the four
\* listed scenes has decoded the last two of them.
C2_Witness ==
    /\ Built /\ num_scenes(self) = 3 /\ Len(dataset_files) = 4
    /\ it.pc = "exhausted" /\ ~it.worker_info.none
    /\ it.worker_info.num_workers = 2 /\ it.worker_info.id = 1
    /\ it.decoded = Positions(self._scene_file_paths, 1, 3)

\* C3: when chunk = N // W is 0 (more workers than scenes, or no scene at
\* all), starting an iteration in a worker context gives every worker a
\* defined shard instead of failing.
C3_DegenerateShardingDefined ==
    (InWorker /\ num_scenes(self) \div it.worker_info.num_workers = 0)
        => it.pc # "raised"

\* C4: with as many tag records as scene paths, _filter_paths returns the
\* paths at the positions whose record satisfies scene_tags_filter, in
\* their original order and without duplicates; without a predicate it
\* returns the whole list.
C4_TagIndexResult ==
    (Built /\ Len(tag_file) = Len(dataset_files)) =>
      LET result == self._scene_file_paths
      IN  /\ {result[k] : k \in 1..Len(result)} =
               {At(dataset_files, i) : i \in AcceptedRecords}
          /\ \A j, k \in 1..Len(result) : j < k => result[j] < result[k]
          /\ kwargs.scene_tags_filter = None => result = dataset_files

\* Four paths, four records, the second and the last rejected by the filter.
C4_Witness ==
    /\ Built
    /\ tag_file = <<"Moscow", "Innopolis", "Moscow", "Innopolis">>
    /\ Len(dataset_files) = 4
    /\ kwargs.scene_tags_filter = "track_is_Moscow"
    /\ self._scene_file_paths = <<0, 2>>

\* The paths at the accepted positions below m, in order.
AcceptedAmongFirst(m) ==
    LET idx == [k \in 1..m |-> k - 1]
        kept == SelectSeq(idx, RecordSatisfies)
    IN  [k \in 1..Len(kept) |-> At(dataset_files, kept[k])]

\* Construction has ended, on a tag file of well-formed records whose number
\* differs from the number of scene paths.
MismatchSettled ==
    /\ self.state # "unbuilt"
    /\ FiltersCallable
    /\ AllRecordsParse
    /\ Len(tag_file) # Len(dataset_files)

\* C5 as stated: whenever the number of tag records differs from the number
\* of scene paths, whichever is longer, _filter_paths raises no error and
\* returns the accepted paths among the first min(#records, #paths)
\* positions.
C5_SilentTruncationEitherWay ==
    MismatchSettled =>
      /\ Built
      /\ self._scene_file_paths =
           AcceptedAmongFirst(Min(Len(tag_file), Len(dataset_files)))

\* C5 as amended: on a length mismatch _filter_paths returns the accepted
\* paths among the first min(#records, #paths) positions unless a record at
\* a position >= #paths is accepted (possible only with more records than
\* paths); then it raises IndexError and returns no list.
C5_TruncationOrIndexError ==
    MismatchSettled =>
      IF \E i \in AcceptedRecords : i >= Len(dataset_files)
      THEN /\ self.state = "raised"
           /\ self.error.type = "IndexError"
           /\ Len(tag_file) > Len(dataset_files)
      ELSE /\ Built
           /\ self._scene_file_paths =
                AcceptedAmongFirst(Min(Len(tag_file), Len(dataset_files)))

\* Two paths, three records; the filter rejects the second record and
\* accepts the third, which has no path.
C5_Witness ==
    /\ self.state = "raised"
    /\ Len(dataset_files) = 2
    /\ tag_file = <<"Moscow", "Innopolis", "Moscow">>
    /\ kwargs.scene_tags_filter = "track_is_Moscow"
    /\ kwargs.trajectory_tags_filter = None

\* C6: when the number of tag records differs from the number of scene
\* paths, construction fails with an error and no dataset is produced.
C6_CountMismatchFatal ==
    (self.state # "unbuilt" /\ Len(tag_file) # Len(dataset_files))
        => self.state = "raised"

\* The 0-based index of the first tag record that does not parse.
FirstMalformed ==
    CHOOSE i \in 0..(Len(tag_file) - 1) :
        /\ At(tag_file, i) \notin WellFormedLines
        /\ \A j \in 0..(i - 1) : At(tag_file, j) \in WellFormedLines

\* C7: if tag record i fails to parse, construction fails, no filtered path
\* list is produced, and the error identifies line i (the i-th line of the
\* tag file, counted from 1).
C7_ParseFailureIdentifiesLine ==
    (self.state # "unbuilt" /\ FiltersCallable /\ ~AllRecordsParse) =>
      /\ self.state = "raised"
      /\ self.error.type = "JSONDecodeError"
      /\ self.error.lineno = FirstMalformed + 1

\* The (scene file, request index) pairs of the valid and accepted requests
\* of the scene at `path`, in request order.
KeptRequests(obj, path, lay) ==
    LET scene == decode(path, lay)
        idx == [r \in 1..Len(scene.prediction_requests) |-> r - 1]
        Keep(r) ==
            /\ request_is_valid(scene, At(scene.prediction_requests, r))
            /\ Call(obj._trajectory_tags_filter,
                    get_tags_from_request(At(scene.prediction_requests, r)))
        kept == SelectSeq(idx, Keep)
    IN  [k \in 1..Len(kept) |-> <<path, kept[k]>>]

RECURSIVE ExpectedPairs(_, _, _)
ExpectedPairs(obj, paths, lay) ==
    IF paths = << >> THEN << >>
    ELSE KeptRequests(obj, Head(paths), lay)
            \o ExpectedPairs(obj, Tail(paths), lay)

YieldedPairs(g) ==
    [k \in 1..Len(g.yielded) |-> <<g.yielded[k].path, g.yielded[k].request>>]

IsPrefix(a, b) == Len(a) <= Len(b) /\ \A k \in 1..Len(a) : a[k] = b[k]

\* C8: the examples an iteration yields are, one for one and in scene-file
\* then request order, those of the requests of its shard that are valid
\* and accepted by trajectory_tags_filter: at every moment a prefix of that
\* sequence, and the whole of it when the generator is exhausted; skipped
\* requests raise nothing.
C8_YieldedSequence ==
    (Built /\ it.pc # "none" /\ it.pc # "raised") =>
      /\ Started
      /\ IsPrefix(YieldedPairs(it), ExpectedPairs(self, it.file_paths, layout))
      /\ it.pc = "exhausted" =>
           YieldedPairs(it) = ExpectedPairs(self, it.file_paths, layout)

\* A scene of three requests whose request 1 is invalid has yielded the
\* examples of its requests 0 and 2, one after the other.
C8_Witness ==
    /\ it.pc = "exhausted"
    /\ \E k \in 1..(Len(it.yielded) - 1) :
          /\ it.yielded[k].path = it.yielded[k + 1].path
          /\ it.yielded[k].request = 0
          /\ it.yielded[k + 1].request = 2
          /\ LET scene == decode(it.yielded[k].path, layout)
             IN  /\ Len(scene.prediction_requests) = 3
                 /\ ~request_is_valid(scene, At(scene.prediction_requests, 1))

\* C9: a dataset built from pre-filtered paths L and a dataset built from a
\* tag file whose accepted paths are L have the same num_scenes, the same
\* shard for every worker, and generators that decode and yield the same;
\* building from pre-filtered paths never opens the tag file and never
\* invokes scene_tags_filter.
C9_ConstructionModesEquivalent ==
    /\ twin.state # "unbuilt" => (twin.opened = 0 /\ twin.calls = 0)
    /\ (Built /\ twin.state = "built"
          /\ self._scene_file_paths = twin._scene_file_paths) =>
         /\ num_scenes(self) = num_scenes(twin)
         /\ \A W \in 1..MaxWorkers : \A w \in 0..(W - 1) :
               _split_filepaths_by_worker(self, w, W) =
                   _split_filepaths_by_worker(twin, w, W)
         /\ it.pc = twin_it.pc
         /\ it.decoded = twin_it.decoded
         /\ it.yielded = twin_it.yielded

\* Both datasets hold the same two of three paths, and both generators,
\* run as the second of two workers, are exhausted after a yield.
C9_Witness ==
    /\ Built /\ twin.state = "built"
    /\ Len(dataset_files) = 3 /\ num_scenes(twin) = 2
    /\ self.calls = 3 /\ twin.calls = 0
    /\ it.pc = "exhausted" /\ twin_it.pc = "exhausted"
    /\ ~twin_it.worker_info.none /\ twin_it.worker_info.id = 1
    /\ Len(twin_it.yielded) > 0

\* C10: after construction with a tag file num_scenes is the number of tag
\* records accepted by scene_tags_filter, and an iteration decodes only
\* scene files whose record was accepted, all of them paths of the filtered
\* list and, in a worker context, of the worker's own shard.
C10_FilteredOutNeverDecoded ==
    Built =>
      /\ num_scenes(self) = Cardinality(AcceptedRecords)
      /\ Started =>
           \A k \in 1..Len(it.decoded) :
             /\ it.decoded[k] < Len(tag_file)
             /\ RecordSatisfies(it.decoded[k])
             /\ \E j \in 1..num_scenes(self) :
                   self._scene_file_paths[j] = it.decoded[k]
             /\ ~it.worker_info.none =>
                   \E j \in (ShardLo(num_scenes(self),
                                     it.worker_info.num_workers,
                                     it.worker_info.id) + 1)
                            ..ShardHi(num_scenes(self),
                                      it.worker_info.num_workers,
                                      it.worker_info.id) :
                       self._scene_file_paths[j] = it.decoded[k]

\* Four files, the records of files 0 and 1 accepted and those of files 2
\* and 3 rejected: num_scenes is 2 and a whole iteration decoded files 0, 1.
C10_Witness ==
    /\ Built
    /\ Len(dataset_files) = 4
    /\ tag_file = <<"Moscow", "Moscow", "Innopolis", "Innopolis">>
    /\ kwargs.scene_tags_filter = "track_is_Moscow"
    /\ num_scenes(self) = 2
    /\ it.pc = "exhausted" /\ it.worker_info.none
    /\ it.decoded = <<0, 1>>

\* C11: an iteration started without a worker context never calls
\* _split_filepaths_by_worker and never fails to start; its generator walks
\* the whole filtered path list in list order, whatever num_scenes >= 0 is,
\* and over an empty list it ends at once having decoded and yielded
\* nothing.
C11_NoWorkerWholeList ==
    (Built /\ it.pc # "none" /\ it.worker_info.none) =>
      /\ it.pc # "raised"
      /\ it.split_calls = 0
      /\ it.file_paths = self._scene_file_paths
      /\ IsPrefix(it.decoded, self._scene_file_paths)
      /\ it.pc = "exhausted" =>
           /\ it.decoded = self._scene_file_paths
           /\ YieldedPairs(it) =
                ExpectedPairs(self, self._scene_file_paths, layout)
           /\ num_scenes(self) = 0 => it.yielded = << >>

\* Without a worker context an iteration over an empty filtered list has
\* ended, with files listed in the directory and every record rejected.
C11_Witness ==
    /\ Built /\ num_scenes(self) = 0 /\ Len(dataset_files) > 0
    /\ it.worker_info.none /\ it.pc = "exhausted"
    /\ it.decoded = << >> /\ it.yielded = << >>

\* C12: in every example yielded the value under ground_truth_trajectory is
\* the ground truth of the request's track as data_gen computed it, never a
\* value the feature producer emitted under that key.
C12_GroundTruthNeverFromProducer ==
    \A k \in 1..Len(it.yielded) :
        LET scene == decode(it.yielded[k].path, layout)
            request == At(scene.prediction_requests, it.yielded[k].request)
        IN  it.yielded[k].result.ground_truth_trajectory =
                ground_truth_trajectory(self, scene, request)

\* What handling request number r of `scene` ends in.
Outcome(obj, scene, r) ==
    LET request == At(scene.prediction_requests, r)
        tags == get_tags_from_request(request)
    IN  IF ~request_is_valid(scene, request) THEN "skipped"
        ELSE IF Raises(obj._trajectory_tags_filter, tags) THEN "raised"
        ELSE IF ~Call(obj._trajectory_tags_filter, tags) THEN "skipped"
        ELSE IF produce_features(obj._feature_producer, scene,
                                 to_track_frame_tf(scene, request)).raised
        THEN "raised"
        ELSE "yielded"

\* Walking `paths` from request r of scene number i on, up to the first
\* failure: the pairs yielded, the number of scene files decoded, and
\* whether the walk ended in a failure.
RECURSIVE UntilFailure(_, _, _, _, _, _)
UntilFailure(obj, paths, lay, i, r, pairs) ==
    IF i >= Len(paths)
    THEN [failed |-> FALSE, pairs |-> pairs, decoded |-> i]
    ELSE IF is_corrupt(At(paths, i), lay)
    THEN [failed |-> TRUE, pairs |-> pairs, decoded |-> i]
    ELSE LET scene == decode(At(paths, i), lay)
         IN  IF r >= Len(scene.prediction_requests)
             THEN UntilFailure(obj, paths, lay, i + 1, 0, pairs)
             ELSE CASE Outcome(obj, scene, r) = "raised" ->
                         [failed |-> TRUE, pairs |-> pairs,
                          decoded |-> i + 1]
                    [] Outcome(obj, scene, r) = "skipped" ->
                         UntilFailure(obj, paths, lay, i, r + 1, pairs)
                    [] OTHER ->
                         UntilFailure(obj, paths, lay, i, r + 1,
                                      Append(pairs, <<At(paths, i), r>>))

\* C13: when a scene file does not decode, or trajectory_tags_filter or the
\* feature producer raises, the generator ends in that failure, with the
\* error in the consumer's hands: the examples yielded are exactly those of
\* the requests before the failing one, no scene file after the failing
\* point is decoded, a further next() yields nothing, no call is made
\* twice, and the generator never reaches its normal end.
C13_FailuresAbort ==
    (Built /\ it.pc \notin {"none", "raised"}) =>
      LET e == UntilFailure(self, it.file_paths, layout, 0, 0, << >>)
      IN  /\ IsPrefix(YieldedPairs(it), e.pairs)
          /\ Len(it.decoded) <= e.decoded
          /\ \A j, k \in 1..Len(it.trace) :
                it.trace[j] = it.trace[k] => j = k
          /\ it.pc \in {"failed", "closed"} =>
                /\ e.failed
                /\ YieldedPairs(it) = e.pairs
                /\ it.error.type \in {"DecodeError", "KeyError", "RuntimeError"}
          /\ it.pc = "exhausted" =>
                /\ ~e.failed
                /\ YieldedPairs(it) = e.pairs
          /\ e.failed => it.pc # "exhausted"

\* The trajectory predicate raised after an example had been yielded and
\* with scene files of the shard still to come; the consumer called next()
\* once more and got nothing.
C13_Witness ==
    /\ it.pc = "closed"
    /\ it.error.type = "KeyError"
    /\ Len(it.yielded) > 0
    /\ Len(it.decoded) < Len(it.file_paths)

\* How often the call `ev` stands in the trace of generator g.
Count(g, ev) == Cardinality({k \in 1..Len(g.trace) : g.trace[k] = ev})

\* Request number r of the k-th scene file generator g decoded has been
\* handled.
Handled(g, k, r) ==
    \/ k < Len(g.decoded)
    \/ g.pc # "requests"
    \/ r < g.req_i

\* C14 as stated: scene_tags_filter is invoked exactly once per scene at
\* construction with a tag file and never during iteration, and
\* trajectory_tags_filter exactly once for every prediction request of
\* every scene an iteration has decoded and handled.
C14_FilterOncePerRequest ==
    Built =>
      /\ self.calls = Len(tag_file)
      /\ \A j \in 1..Len(it.trace) : it.trace[j].op # "_scene_tags_filter"
      /\ \A k \in 1..Len(it.decoded) :
            LET scene == decode(it.decoded[k], layout)
            IN  \A r \in 0..(Len(scene.prediction_requests) - 1) :
                  Handled(it, k, r) =>
                    Count(it, Ev("_trajectory_tags_filter", scene, r)) = 1

\* C14 as amended: scene_tags_filter is invoked exactly once per tag record
\* at construction with a tag file and never during iteration;
\* trajectory_tags_filter is invoked exactly once for every valid
\* prediction request an iteration has handled, and not at all for a
\* request that fails the validity check or has not been reached.
C14_FilterOncePerValidRequest ==
    Built =>
      /\ self.calls = Len(tag_file)
      /\ \A j \in 1..Len(it.trace) :
            /\ it.trace[j].op # "_scene_tags_filter"
            /\ \E k \in 1..Len(it.decoded) :
                  it.trace[j].scene = it.decoded[k]
      /\ \A k \in 1..Len(it.decoded) :
            LET scene == decode(it.decoded[k], layout)
            IN  \A r \in 0..(Len(scene.prediction_requests) - 1) :
                  Count(it, Ev("_trajectory_tags_filter", scene, r)) =
                    IF /\ Handled(it, k, r)
                       /\ request_is_valid(scene,
                             At(scene.prediction_requests, r))
                    THEN 1 ELSE 0

\* An iteration is through a scene of three requests, the second of them
\* invalid: the predicate was asked about the first and the third only.
C14_Witness ==
    /\ Built /\ it.pc = "exhausted" /\ self.calls = 3
    /\ \E k \in 1..Len(it.decoded) :
          LET scene == decode(it.decoded[k], layout)
          IN  /\ Len(scene.prediction_requests) = 3
              /\ ~request_is_valid(scene, At(scene.prediction_requests, 1))
              /\ Count(it, Ev("_trajectory_tags_filter", scene, 0)) = 1
              /\ Count(it, Ev("_trajectory_tags_filter", scene, 1)) = 0
              /\ Count(it, Ev("_trajectory_tags_filter", scene, 2)) = 1

\* The track request number r of the scene in file `path` names.
TrackOf(path, r) ==
    LET scene == decode(path, layout)
    IN  scene.tracks[At(scene.prediction_requests, r).track_id]

\* C15: every transform handed to the feature producer is the one of the
\* request's own track: it maps the position of that track at prediction
\* time to (0, 0) and its heading to yaw 0, and it is the same whatever
\* the track's states after prediction time are.
C15_AgentFrame ==
    \A j \in 1..Len(it.trace) :
        it.trace[j].op = "produce_features" =>
          LET track == TrackOf(it.trace[j].scene, it.trace[j].request)
              tf == it.trace[j].transform
          IN  /\ transform2dpoints(<< track.position >>, tf) = << <<0, 0>> >>
              /\ (track.yaw - tf.yaw) % 4 = 0
              /\ tf = get_to_track_frame_transform(
                          [track EXCEPT !.future = << >>])

\* The producer was handed the transform of a track that stands away from
\* the origin, for a request that is not the first of its scene, and the
\* example was yielded.
C15_Witness ==
    \E k \in 1..Len(it.yielded) :
        LET track == TrackOf(it.yielded[k].path, it.yielded[k].request)
        IN  /\ it.yielded[k].request > 0
            /\ track.position # <<0, 0>>
            /\ it.yielded[k].result.feature_maps.transform =
                  get_to_track_frame_transform(track)
            /\ \E j \in 1..Len(it.trace) :
                  /\ it.trace[j].op = "produce_features"
                  /\ it.trace[j].scene = it.yielded[k].path
                  /\ it.trace[j].request = it.yielded[k].request

\* The calls generator g made for request number r of the scene in file
\* `path`, in the order it made them.
CallsFor(g, path, r) ==
    LET ForRequest(ev) ==
            /\ ev.op # "scenes_generator"
            /\ ev.scene = path
            /\ ev.request = r
    IN  SelectSeq(g.trace, ForRequest)

\* The position of the first call of `op` in `calls`, 0 if there is none.
Index(calls, op) ==
    IF \E k \in 1..Len(calls) : calls[k].op = op
    THEN CHOOSE k \in 1..Len(calls) :
            /\ calls[k].op = op
            /\ \A j \in 1..(k - 1) : calls[j].op # op
    ELSE 0

\* C16: for every request a generator has handled, the validity check is
\* the first call; the tag extractor and the predicate are called, in this
\* order, only for a valid request; the track lookup, the transform, the
\* ground truth lookup and the producer are called only after the
\* predicate accepted; the producer is called exactly once for an example
\* that is yielded, with its scene and the transform of the request,
\* before the yield, and not at all for a request that is skipped.
C16_StepOrder ==
    \A k \in 1..Len(it.decoded) :
      LET path == it.decoded[k]
          scene == decode(path, layout)
      IN  \A r \in 0..(Len(scene.prediction_requests) - 1) :
            LET calls == CallsFor(it, path, r)
                I(op) == Index(calls, op)
                request == At(scene.prediction_requests, r)
                valid == request_is_valid(scene, request)
                accepted == Call(self._trajectory_tags_filter,
                                 get_tags_from_request(request))
                yielded == \E y \in 1..Len(it.yielded) :
                              YieldedPairs(it)[y] = <<path, r>>
                produced == Count(it, [op |-> "produce_features",
                                       scene |-> path, request |-> r,
                                       transform |->
                                          to_track_frame_tf(scene, request)])
            IN  /\ Handled(it, k, r) <=> calls # << >>
                /\ calls # << >> => calls[1].op = "request_is_valid"
                /\ I("get_tags_from_request") > 0 =>
                      (valid /\ I("get_tags_from_request") = 2)
                /\ I("_trajectory_tags_filter") > 0 =>
                      (valid /\ I("_trajectory_tags_filter") = 3)
                /\ \A op \in {"get_track_for_transform",
                               "get_to_track_frame_transform",
                               "get_gt_trajectory", "transform2dpoints",
                               "produce_features", "yield"} :
                      I(op) > 0 =>
                        /\ valid /\ accepted
                        /\ I("_trajectory_tags_filter") = 3
                        /\ I(op) > 3
                /\ I("produce_features") > 0 =>
                      /\ I("get_track_for_transform")
                            < I("get_to_track_frame_transform")
                      /\ I("get_to_track_frame_transform")
                            < I("produce_features")
                /\ yielded <=> I("yield") > 0
                /\ yielded =>
                      /\ I("yield") = Len(calls)
                      /\ I("produce_features") = Len(calls) - 1
                      /\ produced = 1
                /\ ~yielded => I("produce_features") = 0
                /\ Len(SelectSeq(calls,
                        LAMBDA ev : ev.op = "produce_features")) <= 1

\* One scene has had a request yielded, a request skipped as invalid and a
\* request skipped by the predicate.
C16_Witness ==
    \E k \in 1..Len(it.decoded) :
        LET path == it.decoded[k]
        IN  /\ Index(CallsFor(it, path, 0), "yield") = Len(CallsFor(it, path, 0))
            /\ Len(CallsFor(it, path, 0)) >= 7
            /\ Len(CallsFor(it, path, 1)) = 1
            /\ Len(CallsFor(it, path, 2)) = 3

\* Generator g, started in a worker context, stands where it would stand
\* had it run alone: on the shard of its worker, having decoded a prefix of
\* it and yielded a prefix of the examples of it, all of them once it is
\* exhausted.
WalksOwnShard(g) ==
    LET N == num_scenes(self)
        W == g.worker_info.num_workers
        w == g.worker_info.id
    IN  IF N \div W = 0 THEN g.pc = "raised"
        ELSE /\ g.pc \in {"scenes", "requests", "exhausted", "closed"}
             /\ g.file_paths =
                  Positions(self._scene_file_paths,
                            ShardLo(N, W, w), ShardHi(N, W, w))
             /\ IsPrefix(g.decoded, g.file_paths)
             /\ Len(g.decoded) \in {g.scene_i, g.scene_i + 1}
             /\ IsPrefix(YieldedPairs(g),
                         ExpectedPairs(self, g.file_paths, layout))
             /\ g.pc = "exhausted" =>
                   /\ g.decoded = g.file_paths
                   /\ YieldedPairs(g) =
                        ExpectedPairs(self, g.file_paths, layout)

\* C17: with two worker iterations of one dataset interleaved in any order,
\* either of them possibly dropped early, the dataset stays as construction
\* left it (the filtered path list and num_scenes with it), and each
\* generator walks the shard that its worker id, the number of workers and
\* the filtered list give, decoding and yielding what it would alone.
C17_WorkersIndependent ==
    Built =>
      /\ self = __init__(dataset_files, tag_file, kwargs)
      /\ num_scenes(self) = Len(dataset_files)
      /\ it.pc # "none" => WalksOwnShard(it)
      /\ twin_it.pc # "none" => WalksOwnShard(twin_it)

\* Two of three workers over four scene files: the last worker has walked
\* its two files to the end and yielded, after the first worker had
\* yielded and was dropped in the middle of its only file.
C17_Witness ==
    /\ Built /\ num_scenes(self) = 4
    /\ it.pc = "exhausted" /\ it.worker_info.id = 2
    /\ it.worker_info.num_workers = 3
    /\ Len(it.decoded) = 2 /\ Len(it.yielded) > 0
    /\ twin_it.pc = "closed" /\ twin_it.worker_info.id = 0
    /\ Len(twin_it.yielded) > 0
    /\ twin_it.scene_i = 0

\* An upper bound of the steps a generator over `paths` takes: one to
\* decode a scene file, one for each request of it, one to leave it, and
\* one to end.
RECURSIVE StepBound(_, _)
StepBound(paths, lay) ==
    IF paths = << >> THEN 1
    ELSE 2 + Len(decode(Head(paths), lay).prediction_requests)
           + StepBound(Tail(paths), lay)

\* C18: an iteration started after another one of the same worker context
\* ended or was dropped walks the same shard from its first scene file and
\* yields the same examples: the two sequences agree as far as both go,
\* the later one holds all of a dropped earlier one once it is exhausted,
\* and two exhausted iterations yielded the same. Every iteration ends
\* within a number of steps fixed by its shard.
C18_RestartableIteration ==
    /\ (Built /\ it.pc \in {"scenes", "requests", "exhausted", "closed"}) =>
          /\ IsPrefix(it.decoded, it.file_paths)
          /\ it.steps <= StepBound(it.file_paths, layout)
          /\ Len(it.yielded) <= it.steps
          /\ it.pc \in {"scenes", "requests"} =>
                Branch(self, it, layout) # "halted"
    /\ (Built /\ twin_it.pc # "none" /\ it.pc # "none") =>
          /\ it.worker_info = twin_it.worker_info
          /\ it.pc # "raised"
          /\ it.file_paths = twin_it.file_paths
          /\ \A k \in 1..Min(Len(it.yielded), Len(twin_it.yielded)) :
                it.yielded[k] = twin_it.yielded[k]
          /\ it.pc = "exhausted" =>
                /\ IsPrefix(twin_it.yielded, it.yielded)
                /\ twin_it.pc = "exhausted" => it.yielded = twin_it.yielded

\* An iteration was dropped after its second example; the next one, in the
\* same worker context, ran to the end and yielded more than those two.
C18_Witness ==
    /\ twin_it.pc = "closed" /\ Len(twin_it.yielded) = 2
    /\ it.pc = "exhausted" /\ Len(it.yielded) > 2
    /\ ~it.worker_info.none

\* C19: in every example yielded, the ground truth is the trajectory of the
\* request's track as stored when the transform flag is false, and that
\* trajectory mapped point by point by the transform of the track when the
\* flag is true; whatever the flag, the requests yielded are those valid
\* and accepted, in order, and the producer was handed the scene and the
\* transform of the request.
C19_FlagAffectsOnlyGroundTruth ==
    (Built /\ it.pc \in {"scenes", "requests", "exhausted"}) =>
      /\ IsPrefix(YieldedPairs(it),
                  UntilFailure(self, it.file_paths, layout, 0, 0, << >>).pairs)
      /\ \A k \in 1..Len(it.yielded) :
            LET scene == decode(it.yielded[k].path, layout)
                request == At(scene.prediction_requests,
                              it.yielded[k].request)
                stored == get_gt_trajectory(scene, request.track_id)
                tf == get_to_track_frame_transform(
                          get_track_for_transform(scene, request.track_id))
                result == it.yielded[k].result
            IN  /\ result.feature_maps =
                      [scene |-> scene.id, transform |-> tf]
                /\ Len(result.ground_truth_trajectory) = Len(stored)
                /\ IF self._transform_ground_truth_to_agent_frame
                   THEN result.ground_truth_trajectory =
                            transform2dpoints(stored, tf)
                   ELSE result.ground_truth_trajectory = stored

\* The entity classes a renderer may name.
EntityClasses == {"vehicles", "pedestrians", "road_graph"}

\* The layers of `renderer` as a set.
LayersOf(renderer, class) ==
    {renderer[class][k] : k \in 1..Len(renderer[class])}

\* C20: whenever a dataset is built for the renderer, the configuration
\* shipped for it is valid: every group of RENDERER_CONFIG has a time grid with
\* 0 <= start <= stop <= 24 and step >= 1; every renderer names entity
\* classes among vehicles, pedestrians and road_graph only; pedestrians have
\* no layer but occupancy and velocity, vehicles none but occupancy,
\* velocity, acceleration and yaw; and the groups, renderers and layers
\* stand in the order written: vehicles (occupancy, velocity, acceleration,
\* yaw) and pedestrians (occupancy, velocity) in the first group, the road
\* graph with its eight layers in the second.
C20_ShippedConfigValid ==
    (Built /\ self._feature_producer = "renderer") =>
    LET groups == RENDERER_CONFIG.renderers_groups
    IN  /\ \A g \in 1..Len(groups) :
              LET grid == groups[g].time_grid_params
              IN  /\ 0 <= grid.start
                  /\ grid.start <= grid.stop
                  /\ grid.stop <= MaxHistory
                  /\ grid.step >= 1
                  /\ \A r \in 1..Len(groups[g].renderers) :
                        LET renderer == groups[g].renderers[r]
                        IN  /\ DOMAIN renderer \subseteq EntityClasses
                            /\ "pedestrians" \in DOMAIN renderer =>
                                  LayersOf(renderer, "pedestrians")
                                    \subseteq {"occupancy", "velocity"}
                            /\ "vehicles" \in DOMAIN renderer =>
                                  LayersOf(renderer, "vehicles")
                                    \subseteq {"occupancy", "velocity",
                                               "acceleration", "yaw"}
        /\ Len(groups) = 2
        /\ groups[1].renderers =
              << [vehicles |->
                     <<"occupancy", "velocity", "acceleration", "yaw">>],
                 [pedestrians |-> <<"occupancy", "velocity">>] >>
        /\ groups[2].renderers =
              << [road_graph |->
                     << "crosswalk_occupancy", "crosswalk_availability",
                        "lane_availability", "lane_direction",
                        "lane_occupancy", "lane_priority",
                        "lane_speed_limit", "road_polygons" >>] >>

\* A dataset is built with the renderer as its feature producer, and the
\* configuration shipped for it has a pedestrians renderer of two layers
\* in a group rendered at prediction time only.
C20_Witness ==
    /\ Built
    /\ self._feature_producer = "renderer"
    /\ \E g \in 1..Len(RENDERER_CONFIG.renderers_groups) :
          LET group == RENDERER_CONFIG.renderers_groups[g]
          IN  /\ group.time_grid_params.stop = 0
              /\ \E r \in 1..Len(group.renderers) :
                    /\ "pedestrians" \in DOMAIN group.renderers[r]
                    /\ Len(group.renderers[r].pedestrians) = 2
====
